---- MODULE Spec2Model ----
(***************************************************************************)
(* Model of jjang6251/pybigdata: cal.py (fetch -> spreadsheet -> volatility *)
(* regime analysis -> three charts) and import.py (fetch -> spreadsheet).   *)
(*                                                                         *)
(* Floating point columns are modelled as exact rationals extended with    *)
(* NaN and +/-inf, following IEEE-754 for division by zero and for NaN in  *)
(* comparisons; rounding error is not modelled.                            *)
(***************************************************************************)
EXTENDS Integers, Sequences, FiniteSets

\* ---------------------------------------------------------------- bounds
\* Longest frame handed directly to analyze_regimes.
MaxBars == 4
\* Largest price of an enumerated candle.
MaxPrice == 3
\* Longest candle array in an HTTP response body.
MaxFetch == 2

\* ------------------------------------------------------ program constants
\* df["volatility"].quantile(0.3) and .quantile(0.7), as tenths.
LowQ == 3
HighQ == 7
QDen == 10

\* ------------------------------------------------------------ float values
NaN == [k |-> "nan", n |-> 0, d |-> 1]
Inf(s) == [k |-> "inf", n |-> s, d |-> 0]

RECURSIVE Gcd(_, _)
Gcd(a, b) == IF b = 0 THEN a ELSE Gcd(b, a % b)

Abs(x) == IF x < 0 THEN -x ELSE x

Sign(x) == IF x < 0 THEN -1 ELSE IF x > 0 THEN 1 ELSE 0

\* The rational n/d (d # 0) in lowest terms with a positive denominator.
Num(n, d) ==
    LET g == Gcd(Abs(n), Abs(d))
        s == IF d < 0 THEN -1 ELSE 1
    IN  [k |-> "num", n |-> (s * n) \div g, d |-> (s * d) \div g]

IsNaN(x) == x.k = "nan"

FNeg(x) == IF x.k = "nan" THEN NaN
           ELSE IF x.k = "inf" THEN Inf(-x.n)
           ELSE Num(-x.n, x.d)

FAdd(x, y) ==
    IF x.k = "nan" \/ y.k = "nan" THEN NaN
    ELSE IF x.k = "inf" /\ y.k = "inf" THEN (IF x.n = y.n THEN x ELSE NaN)
    ELSE IF x.k = "inf" THEN x
    ELSE IF y.k = "inf" THEN y
    ELSE Num(x.n * y.d + y.n * x.d, x.d * y.d)

FSub(x, y) == FAdd(x, FNeg(y))

FMul(x, y) ==
    IF x.k = "nan" \/ y.k = "nan" THEN NaN
    ELSE IF x.k = "inf" \/ y.k = "inf"
         THEN (IF Sign(x.n) * Sign(y.n) = 0 THEN NaN ELSE Inf(Sign(x.n) * Sign(y.n)))
    ELSE Num(x.n * y.n, x.d * y.d)

FDiv(x, y) ==
    IF x.k = "nan" \/ y.k = "nan" THEN NaN
    ELSE IF x.k = "inf" THEN (IF y.k = "inf" THEN NaN
                              ELSE Inf(IF y.n < 0 THEN -x.n ELSE x.n))
    ELSE IF y.k = "inf" THEN Num(0, 1)
    ELSE IF y.n = 0 THEN (IF x.n = 0 THEN NaN ELSE Inf(Sign(x.n)))
    ELSE Num(x.n * y.d, x.d * y.n)

\* x <= y as Python evaluates it on floats: False when either side is NaN.
FLe(x, y) ==
    IF x.k = "nan" \/ y.k = "nan" THEN FALSE
    ELSE IF x.k = "inf" THEN (x.n < 0 \/ (y.k = "inf" /\ y.n > 0))
    ELSE IF y.k = "inf" THEN y.n > 0
    ELSE x.n * y.d <= y.n * x.d

FGe(x, y) == FLe(y, x)

\* A call that raised instead of returning a float.
Raised == [k |-> "raise", n |-> 0, d |-> 1]

\* ------------------------------------------------------------ input frames
\* One daily candle after fetch_upbit_data's column selection (opening_price
\* is carried by the program but read by no step, and is left out).
Candle(dt, hi, lo, cl, vo) ==
    [date |-> dt, high_price |-> hi, low_price |-> lo, trade_price |-> cl,
     candle_acc_trade_volume |-> vo]

\* Enumerated prices <<low, high, close>>: the candle closes at its low,
\* close <= high <= MaxPrice, and a candle that closed at 0 has high = 0 too,
\* so that its volatility is 0/0 (missing) rather than infinite.
Prices ==
    {p \in (0..MaxPrice) \X (0..MaxPrice) \X (0..MaxPrice) :
        /\ p[1] = p[3]
        /\ p[3] <= p[2]
        /\ (p[3] = 0 => p[2] = 0)}

\* The frames of len rows, dated 1..len in ascending order; the traded
\* volume of the candle dated dt is dt.
Frames(len) ==
    {[i \in 1..len |-> Candle(i, f[i][2], f[i][1], f[i][3], i)] :
        f \in [1..len -> Prices]}

\* ------------------------------------------------------- pandas primitives
Column(df, name) == [i \in 1..Len(df) |-> df[i][name]]

\* Series.dropna
dropna(s) == SelectSeq(s, LAMBDA x : ~IsNaN(x))

RECURSIVE InsertSorted(_, _)
InsertSorted(x, s) ==
    IF s = <<>> THEN <<x>>
    ELSE IF FLe(x, Head(s)) THEN <<x>> \o s
    ELSE <<Head(s)>> \o InsertSorted(x, Tail(s))

RECURSIVE SortValues(_)
SortValues(s) == IF s = <<>> THEN <<>> ELSE InsertSorted(Head(s), SortValues(Tail(s)))

RECURSIVE FSum(_)
FSum(s) == IF s = <<>> THEN Num(0, 1) ELSE FAdd(Head(s), FSum(Tail(s)))

\* Series.mean / groupby mean with skipna: the mean of the non-NaN values,
\* NaN when there are none.
mean(s) ==
    LET vals == dropna(s)
    IN  IF vals = <<>> THEN NaN ELSE FDiv(FSum(vals), Num(Len(vals), 1))

\* quantile without the sort: it interpolates between positions of the series
\* as given.
quantile_unsorted(s, q) ==
    LET vals == dropna(s)
        n    == Len(vals)
        pos  == q * (n - 1)
        lo   == pos \div QDen
        hi   == IF lo + 1 > n - 1 THEN n - 1 ELSE lo + 1
        frac == Num(pos % QDen, QDen)
    IN  IF n = 0 THEN NaN
        ELSE FAdd(vals[lo + 1], FMul(FSub(vals[hi + 1], vals[lo + 1]), frac))

\* quantile that indexes the sorted values without the empty-series case.
quantile_raise_empty(s, q) ==
    LET vals == SortValues(dropna(s))
        n    == Len(vals)
        pos  == q * (n - 1)
        lo   == pos \div QDen
        hi   == IF lo + 1 > n - 1 THEN n - 1 ELSE lo + 1
        frac == Num(pos % QDen, QDen)
    IN  IF n = 0 THEN Raised
        ELSE FAdd(vals[lo + 1], FMul(FSub(vals[hi + 1], vals[lo + 1]), frac))

\* Series.quantile(q / QDen), interpolation="linear": NaN values are dropped,
\* an empty series gives NaN, otherwise the value at position q*(n-1)/QDen of
\* the sorted values, linearly interpolated between the two closest ranks.
quantile(s, q) ==
    LET vals == SortValues(dropna(s))
        n    == Len(vals)
        pos  == q * (n - 1)
        lo   == pos \div QDen
        hi   == IF lo + 1 > n - 1 THEN n - 1 ELSE lo + 1
        frac == Num(pos % QDen, QDen)
    IN  IF n = 0 THEN NaN
        ELSE FAdd(vals[lo + 1], FMul(FSub(vals[hi + 1], vals[lo + 1]), frac))

\* pct_change followed by fillna(0): the first row's return becomes 0.
pct_change_fill0(s) ==
    [i \in 1..Len(s) |->
        IF i = 1 THEN Num(0, 1) ELSE FSub(FDiv(s[i], s[i - 1]), Num(1, 1))]

\* Series.pct_change(): NaN for the first row, close[i] / close[i-1] - 1 after.
pct_change(s) ==
    [i \in 1..Len(s) |->
        IF i = 1 THEN NaN ELSE FSub(FDiv(s[i], s[i - 1]), Num(1, 1))]

\* ------------------------------------------------------- analyze_regimes
\* (high - low) / close of one row.
volatility(row) ==
    FDiv(Num(row.high_price - row.low_price, 1), Num(row.trade_price, 1))

\* label_regime with strict comparisons.
label_regime_strict(v, low_thr, high_thr) ==
    IF ~FGe(v, low_thr) /\ ~IsNaN(v) /\ ~IsNaN(low_thr) THEN "LOW_VOL"
    ELSE IF ~FLe(v, high_thr) /\ ~IsNaN(v) /\ ~IsNaN(high_thr) THEN "HIGH_VOL"
    ELSE "MID_VOL"

\* label_regime with the high check first.
label_regime_high_first(v, low_thr, high_thr) ==
    IF FGe(v, high_thr) THEN "HIGH_VOL"
    ELSE IF FLe(v, low_thr) THEN "LOW_VOL"
    ELSE "MID_VOL"

label_regime(v, low_thr, high_thr) ==
    IF FLe(v, low_thr) THEN "LOW_VOL"
    ELSE IF FGe(v, high_thr) THEN "HIGH_VOL"
    ELSE "MID_VOL"

\* Character codes of the label strings, as Python compares them.
ord(label) ==
    CASE label = "LOW_VOL"  -> <<76, 79, 87, 95, 86, 79, 76>>
      [] label = "MID_VOL"  -> <<77, 73, 68, 95, 86, 79, 76>>
      [] label = "HIGH_VOL" -> <<72, 73, 71, 72, 95, 86, 79, 76>>

RECURSIVE SeqLess(_, _)
SeqLess(a, b) ==
    IF b = <<>> THEN FALSE
    ELSE IF a = <<>> THEN TRUE
    ELSE IF Head(a) # Head(b) THEN Head(a) < Head(b)
    ELSE SeqLess(Tail(a), Tail(b))

\* groupby(...) with the default sort=True: the distinct keys in ascending
\* string order.
RECURSIVE SortedKeys(_)
SortedKeys(keys) ==
    IF keys = {} THEN <<>>
    ELSE LET m == CHOOSE x \in keys : \A y \in keys \ {x} : SeqLess(ord(x), ord(y))
         IN  <<m>> \o SortedKeys(keys \ {m})

\* groupby(..., sort=False): the keys in order of first appearance.
RECURSIVE FirstSeen(_, _)
FirstSeen(col, seen) ==
    IF col = <<>> THEN <<>>
    ELSE IF Head(col) \in seen THEN FirstSeen(Tail(col), seen)
    ELSE <<Head(col)>> \o FirstSeen(Tail(col), seen \cup {Head(col)})

GroupKeys_unsorted(df) == FirstSeen(Column(df, "regime"), {})

\* groupby over a categorical key with observed=False: every category.
GroupKeys_all(df) == SortedKeys({"LOW_VOL", "MID_VOL", "HIGH_VOL"})

GroupKeys(df) == SortedKeys({df[i].regime : i \in 1..Len(df)})

\* df.groupby("regime")[["return", "volatility", "candle_acc_trade_volume"]].mean()
groupby_mean(df) ==
    LET keys == GroupKeys(df)
        grp(key) == SelectSeq(df, LAMBDA r : r.regime = key)
        vol(g) == [i \in 1..Len(g) |-> Num(g[i].candle_acc_trade_volume, 1)]
    IN  [j \in 1..Len(keys) |->
            [regime |-> keys[j],
             return |-> mean(Column(grp(keys[j]), "return")),
             volatility |-> mean(Column(grp(keys[j]), "volatility")),
             candle_acc_trade_volume |-> mean(vol(grp(keys[j])))]]

\* What the file system does to analyze_regimes: nothing, os.makedirs fails,
\* or stats.to_csv fails.
FsOutcomes == {"ok", "makedirs", "to_csv"}

\* The frame with the volatility, return and regime columns added, the two
\* thresholds, the statistics table, the exception raised (if any), and
\* whether the statistics file was written.
analyze_regimes(df, fs) ==
    LET vols     == [i \in 1..Len(df) |-> volatility(df[i])]
        rets     == pct_change([i \in 1..Len(df) |-> Num(df[i].trade_price, 1)])
        low_thr  == quantile(vols, LowQ)
        high_thr == quantile(vols, HighQ)
        out      == [i \in 1..Len(df) |->
                        [date |-> df[i].date,
                         high_price |-> df[i].high_price,
                         low_price |-> df[i].low_price,
                         trade_price |-> df[i].trade_price,
                         candle_acc_trade_volume |-> df[i].candle_acc_trade_volume,
                         volatility |-> vols[i],
                         return |-> rets[i],
                         regime |-> label_regime(vols[i], low_thr, high_thr)]]
    IN  IF low_thr = Raised \/ high_thr = Raised
        THEN [df |-> df, low_thr |-> low_thr, high_thr |-> high_thr,
              stats |-> <<>>, error |-> "IndexError", written |-> FALSE]
        ELSE IF fs = "makedirs"
        THEN [df |-> out, low_thr |-> low_thr, high_thr |-> high_thr,
              stats |-> <<>>, error |-> "OSError", written |-> FALSE]
        ELSE [df |-> out, low_thr |-> low_thr, high_thr |-> high_thr,
              stats |-> groupby_mean(out),
              error |-> IF fs = "ok" THEN "none" ELSE "OSError",
              written |-> fs = "ok"]

\* ------------------------------------------------------------------ state
VARIABLES
    entry,      \* which entry point runs: "cal", "import", or "analyze" (a direct call)
    pc,         \* the step the run has reached
    resp,       \* the HTTP response requests.get will produce
    df,         \* the DataFrame
    low_thr,    \* analyze_regimes' local low_thr
    high_thr,   \* analyze_regimes' local high_thr
    stats,      \* the per-regime statistics table
    files,      \* the output files written so far, in order
    error,      \* the exception that ended the run, "none" while it runs
    completed   \* whether main printed its completion message

vars == <<entry, pc, resp, df, low_thr, high_thr, stats, files, error, completed>>

NoResp == [transport_ok |-> TRUE, status |-> 200, body |-> <<>>]

\* A direct call of analyze_regimes on a frame of up to MaxBars rows.
InitAnalyze ==
    /\ entry = "analyze"
    /\ pc = "analyze"
    /\ resp = NoResp
    /\ \E len \in 0..MaxBars : df \in Frames(len)
    /\ low_thr = NaN
    /\ high_thr = NaN
    /\ stats = <<>>
    /\ files = <<>>
    /\ error = "none"
    /\ completed = FALSE

CallAnalyze ==
    /\ entry = "analyze"
    /\ pc = "analyze"
    /\ \E fs \in FsOutcomes : \E r \in {analyze_regimes(df, fs)} :
            /\ df' = r.df
            /\ low_thr' = r.low_thr
            /\ high_thr' = r.high_thr
            /\ stats' = r.stats
            /\ error' = r.error
            /\ files' = IF r.written THEN Append(files, "output/regime_stats.csv") ELSE files
            /\ pc' = IF r.error = "none" THEN "returned" ELSE "failed"
    /\ UNCHANGED <<entry, resp, completed>>

NextAnalyze == CallAnalyze

SpecAnalyze == InitAnalyze /\ [][NextAnalyze]_vars

\* ------------------------------------------------------ the two entry points
\* Response bodies: a page that is not JSON, Upbit's JSON error object, or a
\* JSON array of up to MaxFetch candles in any date order.
RECURSIVE Perms(_)
Perms(S) ==
    IF S = {} THEN {<<>>}
    ELSE UNION {{<<x>> \o t : t \in Perms(S \ {x})} : x \in S}

Bodies ==
    {[kind |-> "html", rows |-> <<>>], [kind |-> "error", rows |-> <<>>]}
    \cup {[kind |-> "candles", rows |-> [i \in 1..Len(f) |-> f[o[i]]]] :
            <<f, o>> \in UNION {Frames(len) \X Perms(1..len) : len \in 0..MaxFetch}}

Responses ==
    {[transport_ok |-> FALSE, status |-> 0, body |-> [kind |-> "html", rows |-> <<>>]]}
    \cup {[transport_ok |-> TRUE, status |-> st, body |-> b] :
            st \in {200, 500}, b \in Bodies}

\* Response.raise_for_status raises for 4xx and 5xx.
raise_for_status(r) == r.status >= 400

\* df.sort_values("date")
RECURSIVE sort_values(_)
sort_values(rows) ==
    IF rows = <<>> THEN <<>>
    ELSE LET m == CHOOSE i \in 1..Len(rows) :
                      \A j \in 1..Len(rows) : rows[i].date <= rows[j].date
         IN  <<rows[m]>> \o
             sort_values([k \in 1..(Len(rows) - 1) |->
                              IF k < m THEN rows[k] ELSE rows[k + 1]])

\* res.json() and the DataFrame construction, column selection and sort that
\* follow it in both entry points: the sorted frame, or the exception raised.
parse_body(body) ==
    IF body.kind = "html" THEN [df |-> <<>>, error |-> "JSONDecodeError"]
    ELSE IF body.kind = "error" \/ body.rows = <<>>
         THEN [df |-> <<>>, error |-> "KeyError"]
    ELSE [df |-> sort_values(body.rows), error |-> "none"]

\* fetch_upbit_data
fetch_upbit_data(r) ==
    IF ~r.transport_ok THEN [df |-> <<>>, error |-> "ConnectionError"]
    ELSE IF raise_for_status(r) THEN [df |-> <<>>, error |-> "HTTPError"]
    ELSE parse_body(r.body)

\* import.py lines 6-22: requests.get(...).json() and the frame preparation.
import_fetch(r) ==
    IF ~r.transport_ok THEN [df |-> <<>>, error |-> "ConnectionError"]
    ELSE parse_body(r.body)

\* A stage wrapped in try/except that logs and carries on.
Outcome_swallow(err, next_pc) == next_pc

\* An exception raised in a stage is caught nowhere: the run ends there.
Outcome(err, next_pc) == IF err = "none" THEN next_pc ELSE "failed"

\* A sink's write: the file is added when the write succeeds.
Sink(ok, name) == IF ok THEN Append(files, name) ELSE files

IOError(ok) == IF ok THEN "none" ELSE "OSError"

Init ==
    /\ entry \in {"cal", "import"}
    /\ pc = "fetch"
    /\ resp \in Responses
    /\ df = <<>>
    /\ low_thr = NaN
    /\ high_thr = NaN
    /\ stats = <<>>
    /\ files = <<>>
    /\ error = "none"
    /\ completed = FALSE

\* main, STEP 1
MainFetch ==
    /\ entry = "cal"
    /\ pc = "fetch"
    /\ \E r \in {fetch_upbit_data(resp)} :
            /\ df' = r.df
            /\ error' = r.error
            /\ pc' = Outcome(r.error, "save_to_excel")
    /\ UNCHANGED <<entry, resp, low_thr, high_thr, stats, files, completed>>

\* main, STEP 2: save_to_excel
MainSaveToExcel ==
    /\ entry = "cal"
    /\ pc = "save_to_excel"
    /\ \E ok \in BOOLEAN :
            /\ files' = Sink(ok, "data/btc_data.xlsx")
            /\ error' = IOError(ok)
            /\ pc' = Outcome(IOError(ok), "analyze_regimes")
    /\ UNCHANGED <<entry, resp, df, low_thr, high_thr, stats, completed>>

\* main, STEP 3: analyze_regimes
MainAnalyze ==
    /\ entry = "cal"
    /\ pc = "analyze_regimes"
    /\ \E fs \in FsOutcomes : \E r \in {analyze_regimes(df, fs)} :
            /\ df' = r.df
            /\ low_thr' = r.low_thr
            /\ high_thr' = r.high_thr
            /\ stats' = r.stats
            /\ error' = r.error
            /\ files' = Sink(r.written, "output/regime_stats.csv")
            /\ pc' = Outcome(r.error, "plot_price_with_regimes")
    /\ UNCHANGED <<entry, resp, completed>>

\* main, STEP 4: plot_price_with_regimes (makedirs, draw, savefig)
MainPlotPrice ==
    /\ entry = "cal"
    /\ pc = "plot_price_with_regimes"
    /\ \E ok \in BOOLEAN :
            /\ files' = Sink(ok, "output/price_with_regimes.png")
            /\ error' = IOError(ok)
            /\ pc' = Outcome(IOError(ok), "plot_volatility_hist")
    /\ UNCHANGED <<entry, resp, df, low_thr, high_thr, stats, completed>>

\* main, STEP 4: plot_volatility_hist
MainPlotHist ==
    /\ entry = "cal"
    /\ pc = "plot_volatility_hist"
    /\ \E ok \in BOOLEAN :
            /\ files' = Sink(ok, "output/volatility_hist.png")
            /\ error' = IOError(ok)
            /\ pc' = Outcome(IOError(ok), "plot_regime_boxplot")
    /\ UNCHANGED <<entry, resp, df, low_thr, high_thr, stats, completed>>

\* main, STEP 4: plot_regime_boxplot
MainPlotBox ==
    /\ entry = "cal"
    /\ pc = "plot_regime_boxplot"
    /\ \E ok \in BOOLEAN :
            /\ files' = Sink(ok, "output/regime_boxplot.png")
            /\ error' = IOError(ok)
            /\ pc' = Outcome(IOError(ok), "report")
    /\ UNCHANGED <<entry, resp, df, low_thr, high_thr, stats, completed>>

\* main's closing prints
MainReport ==
    /\ entry = "cal"
    /\ pc = "report"
    /\ completed' = TRUE
    /\ pc' = "done"
    /\ UNCHANGED <<entry, resp, df, low_thr, high_thr, stats, files, error>>

\* get_upbit_data_to_excel, lines 6-22
ImportFetch ==
    /\ entry = "import"
    /\ pc = "fetch"
    /\ \E r \in {import_fetch(resp)} :
            /\ df' = r.df
            /\ error' = r.error
            /\ pc' = Outcome(r.error, "to_excel")
    /\ UNCHANGED <<entry, resp, low_thr, high_thr, stats, files, completed>>

\* get_upbit_data_to_excel, lines 25-29
ImportToExcel ==
    /\ entry = "import"
    /\ pc = "to_excel"
    /\ \E ok \in BOOLEAN :
            /\ files' = Sink(ok, "btc_data.xlsx")
            /\ error' = IOError(ok)
            /\ pc' = Outcome(IOError(ok), "done")
    /\ UNCHANGED <<entry, resp, df, low_thr, high_thr, stats, completed>>

Next ==
    \/ MainFetch
    \/ MainSaveToExcel
    \/ MainAnalyze
    \/ MainPlotPrice
    \/ MainPlotHist
    \/ MainPlotBox
    \/ MainReport
    \/ ImportFetch
    \/ ImportToExcel

Spec == Init /\ [][Next]_vars

\* ------------------------------------------------------------------ claims
Labels == {"LOW_VOL", "MID_VOL", "HIGH_VOL"}

\* analyze_regimes was called directly and has run (returned or raised).
Analyzed == entry = "analyze" /\ pc # "analyze"

\* analyze_regimes was called directly and returned.
Returned == entry = "analyze" /\ pc = "returned"

Rows == 1..Len(df)

Defined(i) == ~IsNaN(df[i].volatility)

\* The statistics row keyed by a label (the claims below establish there is
\* at most one).
StatsRow(label) == stats[CHOOSE j \in 1..Len(stats) : stats[j].regime = label]

RECURSIVE SumOver(_, _)
SumOver(S, col) ==
    IF S = {} THEN Num(0, 1)
    ELSE LET i == CHOOSE x \in S : TRUE
         IN  FAdd(col[i], SumOver(S \ {i}, col))

MeanOver(S, col) == IF S = {} THEN NaN ELSE FDiv(SumOver(S, col), Num(Cardinality(S), 1))

\* C1: every bar whose volatility v is defined is labeled LOW_VOL if
\* v <= low_thr, otherwise HIGH_VOL if v >= high_thr, otherwise MID_VOL; it
\* carries exactly one of the three labels, and a v equal to both thresholds
\* is LOW_VOL.
C1_LabelRule ==
    Analyzed =>
        \A i \in Rows : Defined(i) =>
            LET v == df[i].volatility
            IN  /\ df[i].regime \in Labels
                /\ (FLe(v, low_thr) => df[i].regime = "LOW_VOL")
                /\ (~FLe(v, low_thr) /\ FGe(v, high_thr) => df[i].regime = "HIGH_VOL")
                /\ (~FLe(v, low_thr) /\ ~FGe(v, high_thr) => df[i].regime = "MID_VOL")
                /\ (v = low_thr /\ v = high_thr => df[i].regime = "LOW_VOL")

\* All three labels occur among bars with a defined volatility.
C1_Witness ==
    /\ Analyzed
    /\ \E i, j, k \in Rows :
        /\ Defined(i) /\ Defined(j) /\ Defined(k)
        /\ df[i].regime = "LOW_VOL"
        /\ df[j].regime = "MID_VOL"
        /\ df[k].regime = "HIGH_VOL"

\* C2: a bar whose volatility is undefined carries no regime label and is a
\* member of no regime group of the statistics.
C2_UndefinedUnlabelled ==
    Analyzed =>
        \A i \in Rows : ~Defined(i) =>
            /\ df[i].regime \notin Labels
            /\ \A j \in 1..Len(stats) : stats[j].regime # df[i].regime

StatedRank(label) ==
    CASE label = "LOW_VOL" -> 1 [] label = "MID_VOL" -> 2 [] label = "HIGH_VOL" -> 3

NameRank(label) ==
    CASE label = "HIGH_VOL" -> 1 [] label = "LOW_VOL" -> 2 [] label = "MID_VOL" -> 3

\* C5 as stated: the statistics rows are in the order LOW_VOL, MID_VOL,
\* HIGH_VOL, restricted to the labels present.
C5_StatedOrder ==
    Returned =>
        \A j, k \in 1..Len(stats) :
            j < k => StatedRank(stats[j].regime) < StatedRank(stats[k].regime)

\* C5 amended: the statistics rows are in ascending order of the label's
\* name, HIGH_VOL, LOW_VOL, MID_VOL, restricted to the labels present.
C5_NameOrder ==
    Returned =>
        \A j, k \in 1..Len(stats) :
            j < k => NameRank(stats[j].regime) < NameRank(stats[k].regime)

\* A table with all three rows, computed from a frame whose first bar is not
\* HIGH_VOL.
C5_Witness ==
    /\ Returned
    /\ Len(stats) = 3
    /\ df[1].regime # "HIGH_VOL"

\* C6: the statistics have one row for exactly the labels carried by at
\* least one bar, and every row is keyed by one of the three labels.
C6_RowsAreLabelsPresent ==
    Returned =>
        /\ {stats[j].regime : j \in 1..Len(stats)} = {df[i].regime : i \in Rows}
        /\ \A j \in 1..Len(stats) : stats[j].regime \in Labels
        /\ \A j, k \in 1..Len(stats) : stats[j].regime = stats[k].regime => j = k

\* A non-empty frame in which some label has no member.
C6_Witness ==
    /\ Returned
    /\ Len(df) >= 2
    /\ Len(stats) = 2

\* C7: the first bar's return is undefined; its regime's mean return is the
\* mean of the defined returns of that regime's other bars; its regime's mean
\* volume is taken over all members, the first bar included, and the mean
\* volatility over all members with a defined volatility, the first bar
\* included when its volatility is defined.
C7_FirstReturnExcluded ==
    Returned /\ Len(df) >= 1 =>
        LET r       == df[1].regime
            members == {i \in Rows : df[i].regime = r}
            others  == {i \in members : i # 1 /\ ~IsNaN(df[i].return)}
            withVol == {i \in members : Defined(i)}
            volume  == [i \in Rows |-> Num(df[i].candle_acc_trade_volume, 1)]
        IN  /\ IsNaN(df[1].return)
            /\ StatsRow(r).return = MeanOver(others, Column(df, "return"))
            /\ StatsRow(r).candle_acc_trade_volume = MeanOver(members, volume)
            /\ StatsRow(r).volatility = MeanOver(withVol, Column(df, "volatility"))
            /\ (Defined(1) => 1 \in withVol)

\* The first bar shares its regime with a bar that has a defined return, and
\* its own volatility is defined.
C7_Witness ==
    /\ Returned
    /\ Len(df) >= 3
    /\ Defined(1)
    /\ \E i \in Rows :
        /\ i # 1
        /\ df[i].regime = df[1].regime
        /\ df[i].return.k = "num"
        /\ df[i].volatility # df[1].volatility
    /\ StatsRow(df[1].regime).return.k = "num"

C9_EmptyAccepted ==
    Analyzed /\ df = <<>> =>
        /\ error \in {"none", "OSError"}
        /\ stats = <<>>
        /\ IsNaN(low_thr)
        /\ IsNaN(high_thr)

C9_Witness ==
    /\ Returned
    /\ df = <<>>
    /\ stats = <<>>
    /\ error = "none"
    /\ files = <<"output/regime_stats.csv">>

\* The fetch succeeded: the transport delivered a response with a 2xx status.
FetchSucceeded == resp.transport_ok /\ resp.status \in 200..299

\* C4: when the fetch does not succeed (transport failure or non-2xx status)
\* the run aborts before any sink runs: in either entry point no file is
\* written and the run does not finish.
C4_FetchFailureAborts ==
    ~FetchSucceeded =>
        /\ files = <<>>
        /\ pc # "done"

MainStages ==
    <<"fetch", "save_to_excel", "analyze_regimes", "plot_price_with_regimes",
      "plot_volatility_hist", "plot_regime_boxplot", "report", "done">>

MainOutputs ==
    <<"data/btc_data.xlsx", "output/regime_stats.csv", "output/price_with_regimes.png",
      "output/volatility_hist.png", "output/regime_boxplot.png">>

\* What main has written when it stands before stage k.
WrittenBefore(k) == IF k <= 2 THEN 0 ELSE IF k >= 7 THEN 5 ELSE k - 2

C10_State ==
    entry = "cal" =>
        /\ Len(files) <= Len(MainOutputs)
        /\ \A i \in 1..Len(files) : files[i] = MainOutputs[i]
        /\ \A k \in 1..Len(MainStages) :
            pc = MainStages[k] => Len(files) = WrittenBefore(k) /\ error = "none"
        /\ (pc = "failed" <=> error # "none")
        /\ (completed <=> pc = "done")

C10_Step ==
    entry = "cal" =>
        /\ (pc = "failed" => pc' = "failed" /\ files' = files)
        /\ (pc' = "failed" => files' = files /\ ~completed')
        /\ (pc' # "failed" =>
                \E k \in 1..(Len(MainStages) - 1) :
                    pc = MainStages[k] /\ pc' = MainStages[k + 1])
        /\ \A i \in 1..Len(files) : i <= Len(files') /\ files'[i] = files[i]

\* C10: main runs fetch, spreadsheet, analysis with statistics, price chart,
\* histogram, boxplot in that order; a failing stage ends the run, nothing is
\* written after it, what was written stays, and the completion message is
\* printed only after all six stages succeeded.
C10_StagesInOrder == [](C10_State) /\ [][C10_Step]_vars

\* The run failed at the second chart with three outputs already written.
C10_Witness ==
    /\ entry = "cal"
    /\ pc = "failed"
    /\ Len(files) = 3

====
